---- MODULE Spec2Model ----
(***************************************************************************)
(* A model of mountstat.py: the per-mount parser (DeviceData.parse_stats), *)
(* the metric derivation and rendering (DeviceData.display_iostats and     *)
(* friends) and the command driver (iostat_command).                       *)
(*                                                                         *)
(* Conventions.  A line is the sequence of its whitespace-separated words  *)
(* (what line.split() returns); a word is a string.  Python's words[i] is  *)
(* Tok(words, i).  A Python dict is a function whose DOMAIN is its key     *)
(* set.  A Python float is modelled by the exact rational <<n, d>> in      *)
(* lowest terms; an uncaught exception is the value of an `err` field.     *)
(***************************************************************************)
EXTENDS Integers, Sequences, FiniteSets, TLC

VARIABLES
  lines,        \* parse_stats: the list of lines of the block being parsed
  pos,          \* parse_stats: number of lines the for loop has consumed
  found,        \* parse_stats: the local flag `found`
  nfs_data,     \* DeviceData.__nfs_data
  rpc_data,     \* DeviceData.__rpc_data
  pstate,       \* "idle", "parsing", "done", or the name of the exception raised
  routed,       \* per consumed line: the handler parse_stats called for it
  sample_time,  \* display_iostats: the argument sample_time
  options,      \* the optparse options record
  iterOrder,    \* iteration order of the dicts built by calc_other_ops
  stats,        \* display_iostats: the list `stats` handed to the formatter
  out,          \* lines printed so far
  dstate,       \* "ready", "done", or the name of the exception raised
  mountstats,   \* iostat_command: dict mount point -> lines of its block
  args,         \* iostat_command: positional arguments
  devices,      \* iostat_command: the list `devices`
  check,        \* iostat_command: the list `check`
  todo,         \* the part of the list under iteration not yet visited
  pc,           \* iostat_command: position in the function
  errdev        \* mount whose processing raised the uncaught exception

parseVars == <<lines, pos, found, nfs_data, rpc_data, pstate, routed>>
dispVars  == <<sample_time, options, iterOrder, stats, out, dstate>>
ioVars    == <<mountstats, args, devices, check, todo, pc, errdev>>
vars      == <<parseVars, dispVars, ioVars>>

(***************************************************************************)
(* Bounds of the model.                                                    *)
(***************************************************************************)
MaxLines == 3       \* longest block fed to parse_stats line by line
MaxArgs  == 2       \* longest list of positional arguments
MaxSampleTime == 2  \* largest explicit sampling interval besides the age

(***************************************************************************)
(* Python dicts, lists and exceptions.                                     *)
(***************************************************************************)
EmptyDict == [k \in {} |-> 0]
Put(d, k, v) == [x \in (DOMAIN d) \cup {k} |-> IF x = k THEN v ELSE d[x]]
HasKey(d, k) == k \in DOMAIN d

Ok(d) == [err |-> "none", d |-> d]
Raise(e, d) == [err |-> e, d |-> d]

Tok(words, i) == words[i + 1]
Short(words, i) == i >= Len(words)      \* words[i] raises IndexError

RECURSIVE SeqToSet(_)
SeqToSet(s) == IF s = <<>> THEN {} ELSE {Head(s)} \cup SeqToSet(Tail(s))

NoDuplicates(s) == \A i, j \in 1..Len(s) : s[i] = s[j] => i = j

(***************************************************************************)
(* Floats as exact rationals.                                              *)
(***************************************************************************)
RECURSIVE GCD(_, _)
GCD(a, b) == IF b = 0 THEN a ELSE GCD(b, a % b)

Rat(n, d) == LET g == GCD(n, d) IN <<n \div g, d \div g>>
Float(i) == <<i, 1>>
Zero == <<0, 1>>
FDiv(a, b) == Rat(a[1] * b[2], a[2] * b[1])    \* caller checks b # Zero

(***************************************************************************)
(* String conversions on the vocabulary of the modelled reports.           *)
(***************************************************************************)
NumSet == (0..200) \cup {400, 480, 500, 2049, 390003, 1048576, 2097152}

\* int(w) / long(w): defined on decimal numerals, ValueError elsewhere
IntTab == [w \in {ToString(n) : n \in NumSet} |->
             CHOOSE n \in NumSet : ToString(n) = w]
IsInt(w) == w \in DOMAIN IntTab
IntOf(w) == IntTab[w]

\* float(w)
FloatTab == ("1.0" :> <<1, 1>>) @@ ("1.1" :> <<11, 10>>)
IsFloat(w) == IsInt(w) \/ w \in DOMAIN FloatTab
FloatOf(w) == IF IsInt(w) THEN Float(IntOf(w)) ELSE FloatTab[w]

\* ''.join(ws)
RECURSIVE JoinWords(_)
JoinWords(ws) == IF ws = <<>> THEN "" ELSE Head(ws) \o JoinWords(Tail(ws))

\* s.split(','): the words of the vocabulary that contain a comma
CommaTab == ("flavor=6,pseudoflavor=390003" :> <<"flavor=6", "pseudoflavor=390003">>)
            @@ ("rw,vers=3" :> <<"rw", "vers=3">>)
            @@ ("ro,vers=3" :> <<"ro", "vers=3">>)
            @@ ("rw,vers=3ro,vers=3" :> <<"rw", "vers=3ro", "vers=3">>)
SplitComma(s) == IF s \in DOMAIN CommaTab THEN CommaTab[s] ELSE <<s>>

\* s.split('='): the words of the vocabulary that contain an equals sign
EqTab == ("flavor=1" :> <<"flavor", "1">>) @@ ("flavor=6" :> <<"flavor", "6">>)
         @@ ("flavor=x" :> <<"flavor", "x">>)
         @@ ("pseudoflavor=390003" :> <<"pseudoflavor", "390003">>)
SplitEq(s) == IF s \in DOMAIN EqTab THEN EqTab[s] ELSE <<s>>

\* w.find('nfs') != -1
HasNfs(w) == w \in {"nfs", "nfs3", "nfs4"}

\* the operation lists of ops_maps
OpsRead == <<"GETATTR", "LOOKUP", "ACCESS", "READLINK", "READDIR",
             "READDIRPLUS", "FSSTAT", "FSINFO", "PATHCONF">>
OpsWrite == <<"SETATTR", "CREATE", "MKDIR", "MKNOD", "RENAME", "LINK", "COMMIT">>
ops_maps == [READ |-> OpsRead, WRITE |-> OpsWrite]

\* the operations of an NFSv3 report, in the order the kernel emits them
ReportOps == <<"NULL", "GETATTR", "SETATTR", "LOOKUP", "ACCESS", "READLINK",
               "READ", "WRITE", "CREATE", "MKDIR", "SYMLINK", "MKNOD", "REMOVE",
               "RMDIR", "RENAME", "LINK", "READDIR", "READDIRPLUS", "FSSTAT",
               "FSINFO", "PATHCONF", "COMMIT">>
OpNames == SeqToSet(ReportOps)

\* w[:-1] on the first words of the vocabulary
ColonKeys == OpNames \cup {"age", "bytes", "opts", "caps", "nfsv4", "sec", "events"}
StripTab == [w \in {n \o ":" : n \in ColonKeys} |->
               CHOOSE n \in ColonKeys : n \o ":" = w]
           @@ ("device" :> "devic")
StripLast(w) == StripTab[w]

(***************************************************************************)
(* DeviceData.__parse_nfs_line                                             *)
(***************************************************************************)
EventKeys == <<"inoderevalidates", "dentryrevalidates", "datainvalidates",
               "attrinvalidates", "syncinodes", "vfsopen", "vfslookup",
               "vfspermission", "vfsreadpage", "vfsreadpages", "vfswritepage",
               "vfswritepages", "vfsreaddir", "vfsflush", "vfsfsync", "vfslock",
               "vfsrelease", "setattrtrunc", "extendwrite", "sillyrenames",
               "shortreads", "shortwrites", "delay">>
ByteKeys == <<"normalreadbytes", "normalwritebytes", "directreadbytes",
              "directwritebytes", "serverreadbytes", "serverwritebytes">>
UdpKeys == <<"port", "bind_count", "rpcsends", "rpcreceives", "badxids",
             "backlogutil">>
TcpKeys == <<"bind_count", "connect_count", "connect_time", "idle_time",
             "rpcsends", "rpcreceives", "badxids", "backlogutil">>

\* d[keys[j]] = int(words[first + j - 1]) for j = 1 .. Len(keys), in order;
\* the first word that is absent or not a numeral raises
RECURSIVE AssignInts(_, _, _, _)
AssignInts(d, words, keys, first) ==
  IF keys = <<>> THEN Ok(d)
  ELSE IF Short(words, first) THEN Raise("IndexError", d)
  ELSE IF ~IsInt(Tok(words, first)) THEN Raise("ValueError", d)
  ELSE AssignInts(Put(d, Head(keys), IntOf(Tok(words, first))), words,
                  Tail(keys), first + 1)

ParseSec(d, words) ==
  LET keys == SplitComma(JoinWords(Tail(words)))
      k0 == SplitEq(keys[1])
  IN IF Len(k0) < 2 THEN Raise("IndexError", d)
     ELSE IF ~IsInt(k0[2]) THEN Raise("ValueError", d)
     ELSE LET d1 == Put(Put(d, "flavor", IntOf(k0[2])), "pseudoflavor", 0)
          IN IF IntOf(k0[2]) = 6
             THEN IF Len(keys) < 2 THEN Raise("IndexError", d1)
                  ELSE LET k1 == SplitEq(keys[2])
                       IN IF Len(k1) < 2 THEN Raise("IndexError", d1)
                          ELSE IF ~IsInt(k1[2]) THEN Raise("ValueError", d1)
                          ELSE Ok(Put(d1, "pseudoflavor", IntOf(k1[2])))
             ELSE Ok(d1)

parse_nfs_line(d, words) ==
  CASE Tok(words, 0) = "device" ->
         IF Short(words, 1) \/ Short(words, 4) \/ Short(words, 7)
         THEN Raise("IndexError", d)
         ELSE LET d1 == Put(Put(Put(d, "export", Tok(words, 1)),
                                "mountpoint", Tok(words, 4)),
                            "fstype", Tok(words, 7))
              IN Ok(IF HasNfs(Tok(words, 7)) /\ Len(words) > 8
                    THEN Put(d1, "statvers", Tok(words, 8)) ELSE d1)
    [] Tok(words, 0) = "age:" ->
         IF Short(words, 1) THEN Raise("IndexError", d)
         ELSE IF ~IsInt(Tok(words, 1)) THEN Raise("ValueError", d)
         ELSE Ok(Put(d, "age", IntOf(Tok(words, 1))))
    [] Tok(words, 0) = "opts:" ->
         Ok(Put(d, "mountoptions", SplitComma(JoinWords(Tail(words)))))
    [] Tok(words, 0) = "caps:" ->
         Ok(Put(d, "servercapabilities", SplitComma(JoinWords(Tail(words)))))
    [] Tok(words, 0) = "nfsv4:" ->
         Ok(Put(d, "nfsv4flags", SplitComma(JoinWords(Tail(words)))))
    [] Tok(words, 0) = "sec:" -> ParseSec(d, words)
    [] Tok(words, 0) = "events:" -> AssignInts(d, words, EventKeys, 1)
    [] Tok(words, 0) = "bytes:" -> AssignInts(d, words, ByteKeys, 1)
    [] OTHER -> Ok(d)

(***************************************************************************)
(* DeviceData.__parse_rpc_line                                             *)
(***************************************************************************)
\* [long(word) for word in words[1:]]
RECURSIVE LongList(_)
LongList(ws) == IF ws = <<>> THEN <<>> ELSE <<IntOf(Head(ws))>> \o LongList(Tail(ws))

\* self.__rpc_data['ops'] += [op]; self.__rpc_data[op] = [long(word) ...]
StoreOp(d, op, words) ==
  LET d1 == Put(d, "ops", Append(d["ops"], op))
  IN IF \E i \in 2..Len(words) : ~IsInt(words[i]) THEN Raise("ValueError", d1)
     ELSE Ok(Put(d1, op, LongList(Tail(words))))

parse_rpc_line(d, words) ==
  CASE Tok(words, 0) = "RPC" ->
         IF Short(words, 3) THEN Raise("IndexError", d)
         ELSE IF ~IsFloat(Tok(words, 3)) THEN Raise("ValueError", d)
         ELSE IF Short(words, 5) THEN Raise("IndexError", d)
         ELSE Ok(Put(Put(d, "statsvers", FloatOf(Tok(words, 3))),
                     "programversion", Tok(words, 5)))
    [] Tok(words, 0) = "xprt:" ->
         IF Short(words, 1) THEN Raise("IndexError", d)
         ELSE LET d1 == Put(d, "protocol", Tok(words, 1))
              IN IF Tok(words, 1) = "udp" THEN AssignInts(d1, words, UdpKeys, 2)
                 ELSE IF Tok(words, 1) = "tcp"
                 THEN IF Short(words, 2) THEN Raise("IndexError", d1)
                      ELSE AssignInts(Put(d1, "port", Tok(words, 2)), words,
                                      TcpKeys, 3)
                 ELSE Ok(d1)
    [] Tok(words, 0) = "per-op" -> Ok(Put(d, "per-op", words))
    [] OTHER -> StoreOp(d, StripLast(Tok(words, 0)), words)

(***************************************************************************)
(* DeviceData.__init__ and DeviceData.parse_stats                          *)
(***************************************************************************)
InitNfs == EmptyDict
InitRpc == Put(EmptyDict, "ops", <<>>)

\* a parser that picks the handler by the first word of each line alone
RouteToNfs_ByFirstWord(f, words) == Tok(words, 0) # "RPC"

\* the test `not found and words[0] != 'RPC'` of parse_stats
RouteToNfs(f, words) == ~f /\ Tok(words, 0) # "RPC"

\* one iteration of the for loop of parse_stats on the record
\* [found, nfs, rpc, err]
ParseLine(st, words) ==
  IF Len(words) = 0 THEN st
  ELSE IF RouteToNfs(st.found, words)
  THEN LET r == parse_nfs_line(st.nfs, words)
       IN [st EXCEPT !.nfs = r.d, !.err = r.err]
  ELSE LET r == parse_rpc_line(st.rpc, words)
       IN [st EXCEPT !.found = TRUE, !.rpc = r.d, !.err = r.err]

\* the handler the iteration calls
HandlerOf(f, words) ==
  IF Len(words) = 0 THEN "skip" ELSE IF RouteToNfs(f, words) THEN "nfs" ELSE "rpc"

(***************************************************************************)
(* The lines of the modelled reports.                                      *)
(***************************************************************************)
DeviceLine(export, mp, fstype) ==
  <<"device", export, "mounted", "on", mp, "with", "fstype", fstype>>
  \o (IF HasNfs(fstype) THEN <<"statvers=1.1">> ELSE <<>>)
AgeLine(a) == <<"age:", ToString(a)>>
OptsLine(o) == <<"opts:", o>>
SecLine(s) == <<"sec:", s>>
EventsLine == <<"events:", "1", "2", "3", "4", "5", "6", "7", "8", "9", "0",
                "1", "2", "3", "4", "5", "6", "7", "8", "9", "0", "1", "2", "3">>
BytesLine(r, w) == <<"bytes:", "0", "0", "0", "0", ToString(r), ToString(w)>>
RpcLine == <<"RPC", "iostats", "version:", "1.0", "p/v:", "100003/3", "(nfs)">>
UdpLine(sends, backlog) ==
  <<"xprt:", "udp", "2049", "1", ToString(sends), "480", "0", ToString(backlog)>>
TcpLine(sends, backlog) ==
  <<"xprt:", "tcp", "2049", "1", "1", "0", "0", ToString(sends), "480", "0",
    ToString(backlog)>>
PerOpLine == <<"per-op", "statistics">>
OpLine(name, count, rtt, exe) ==
  <<name \o ":", ToString(count), ToString(count), "0", "0", "0", "50",
    ToString(rtt), ToString(exe)>>

\* the same lines cut short: one word fewer than the key reads
CutLast(l) == SubSeq(l, 1, Len(l) - 1)

GoodLines ==
  { <<>>,
    DeviceLine("srv:/e", "/mnt", "nfs"),
    AgeLine(5), AgeLine(7),
    OptsLine("rw,vers=3"), OptsLine("ro,vers=3"),
    SecLine("flavor=1"), SecLine("flavor=6,pseudoflavor=390003"),
    EventsLine,
    BytesLine(1, 2), BytesLine(3, 4),
    RpcLine, UdpLine(500, 0), TcpLine(500, 0), PerOpLine,
    OpLine("READ", 1, 2, 4), OpLine("READ", 2, 4, 8) }

ShortLines ==
  { SubSeq(DeviceLine("srv:/e", "/mnt", "nfs"), 1, 7),
    <<"age:">>,
    <<"sec:">>, SecLine("flavor=6"),
    CutLast(EventsLine),
    CutLast(BytesLine(1, 2)),
    SubSeq(RpcLine, 1, 5),
    CutLast(UdpLine(500, 0)), CutLast(TcpLine(500, 0)),
    CutLast(OpLine("GETATTR", 1, 2, 4)) }

LinePool == GoodLines \cup ShortLines

RECURSIVE SeqsUpTo(_, _)
SeqsUpTo(S, n) ==
  IF n = 0 THEN {<<>>}
  ELSE LET shorter == SeqsUpTo(S, n - 1)
       IN shorter \cup {Append(s, x) : s \in shorter, x \in S}

(***************************************************************************)
(* Values of the variables a specification does not use.                   *)
(***************************************************************************)
NoOptions == [csv_on |-> FALSE, csv_headers_on |-> FALSE, all_stats_on |-> FALSE,
              read_stats_on |-> FALSE, write_stats_on |-> FALSE]
NoOrder == [READ |-> <<>>, WRITE |-> <<>>]
IdleParse == /\ lines = <<>> /\ pos = 0 /\ found = FALSE
             /\ nfs_data = InitNfs /\ rpc_data = InitRpc
             /\ pstate = "idle" /\ routed = <<>>
IdleDisp == /\ sample_time = 0 /\ options = NoOptions
            /\ iterOrder = NoOrder
            /\ stats = <<>> /\ out = <<>> /\ dstate = "idle"
IdleIo == /\ mountstats = EmptyDict /\ args = <<>> /\ devices = <<>>
          /\ check = <<>> /\ todo = <<>> /\ pc = "idle" /\ errdev = ""

(***************************************************************************)
(* SpecParse: DeviceData().parse_stats(lines), one loop iteration a step.  *)
(***************************************************************************)
ParseInitFrom(pool) ==
  /\ lines \in SeqsUpTo(pool, MaxLines)
  /\ pos = 0 /\ found = FALSE
  /\ nfs_data = InitNfs /\ rpc_data = InitRpc
  /\ pstate = "parsing" /\ routed = <<>>
  /\ IdleDisp /\ IdleIo

\* the loop body on the next line, for the handler h it is routed to
ParseIteration(h) ==
  /\ pstate = "parsing"
  /\ pos < Len(lines)
  /\ HandlerOf(found, lines[pos + 1]) = h
  /\ LET st == ParseLine([found |-> found, nfs |-> nfs_data, rpc |-> rpc_data,
                          err |-> "none"], lines[pos + 1])
     IN /\ found' = st.found
        /\ nfs_data' = st.nfs
        /\ rpc_data' = st.rpc
        /\ pstate' = IF st.err = "none" THEN "parsing" ELSE st.err
  /\ pos' = pos + 1
  /\ routed' = Append(routed, h)
  /\ UNCHANGED <<lines, dispVars, ioVars>>

ParseBlankLine == ParseIteration("skip")
ParseNfsLine == ParseIteration("nfs")
ParseRpcLine == ParseIteration("rpc")

\* the for loop is exhausted: parse_stats returns
ParseReturn ==
  /\ pstate = "parsing"
  /\ pos = Len(lines)
  /\ pstate' = "done"
  /\ UNCHANGED <<lines, pos, found, nfs_data, rpc_data, routed, dispVars, ioVars>>

ParseNext == ParseBlankLine \/ ParseNfsLine \/ ParseRpcLine \/ ParseReturn

\* blocks of well-formed lines, in any order
ParseInit == ParseInitFrom(GoodLines)
SpecParse == ParseInit /\ [][ParseNext]_vars

\* blocks that may hold lines cut short
ParseShortInit == ParseInitFrom(LinePool)
SpecParseShort == ParseShortInit /\ [][ParseNext]_vars

(***************************************************************************)
(* Printed text.  A printed line is the sequence of its pieces, the comma  *)
(* being a piece of its own, so that the line can be split on commas.      *)
(***************************************************************************)
RECURSIVE Digits(_, _)
Digits(n, k) == IF k = 0 THEN "" ELSE Digits(n \div 10, k - 1) \o ToString(n % 10)

\* '%.<k>f' % r, r >= 0 (the rational rounded half up to k decimals)
Fmt(r, k) ==
  LET scaled == (2 * r[1] * 10^k + r[2]) \div (2 * r[2])
  IN ToString(scaled \div 10^k) \o "." \o Digits(scaled % 10^k, k)

\* ','.join(fields)
RECURSIVE CommaJoin(_)
CommaJoin(fields) ==
  IF fields = <<>> THEN <<>>
  ELSE IF Len(fields) = 1 THEN <<fields[1]>>
  ELSE <<Head(fields), ",">> \o CommaJoin(Tail(fields))

\* "%s,%s" % (a, b)
CommaPair(a, b) == a \o <<",">> \o b

\* line.split(',')
RECURSIVE SplitFields(_, _)
SplitFields(line, cur) ==
  IF line = <<>> THEN <<cur>>
  ELSE IF Head(line) = "," THEN <<cur>> \o SplitFields(Tail(line), "")
  ELSE SplitFields(Tail(line), cur \o Head(line))

(***************************************************************************)
(* DeviceData.calc_other_ops, build_read_stats, build_write_stats          *)
(***************************************************************************)
\* the exception the body of the for loop of calc_other_ops raises for
\* operation s, "none" when it completes
OtherErr(rpc, T, s) ==
  IF ~HasKey(rpc, s) THEN "KeyError"
  ELSE IF Len(rpc[s]) < 8 THEN "IndexError"
  ELSE IF T = Zero THEN "ZeroDivisionError"
  ELSE "none"

\* the item (s, others_dict[s]) that the body of the loop builds
OtherGroup(rpc, T, s) ==
  LET ops == Float(rpc[s][1])
      rtt == Float(rpc[s][7])
      exe == Float(rpc[s][8])
  IN <<s, << <<"ops_per_sec", FDiv(ops, T)>>,
             <<"avg_rtt", IF ops # Zero THEN FDiv(rtt, ops) ELSE Zero>>,
             <<"avg_exe", IF ops # Zero THEN FDiv(exe, ops) ELSE Zero>> >> >>

\* others_dict as the list of its items in insertion order; the loop stops
\* at the first operation whose body raises
calc_other_ops(rpc, T, others) ==
  LET bad == {i \in 1..Len(others) : OtherErr(rpc, T, others[i]) # "none"}
  IN IF bad # {}
     THEN Raise(OtherErr(rpc, T, others[CHOOSE i \in bad : \A j \in bad : i <= j]), <<>>)
     ELSE Ok([i \in 1..Len(others) |-> OtherGroup(rpc, T, others[i])])

\* d.iteritems(): the items of a dict in its iteration order
IterItems(items, order) == [i \in 1..Len(items) |-> items[order[i]]]

\* the common text of build_read_stats and build_write_stats
BuildStats(nfs, rpc, T, full, op, bytekey, prefix, order) ==
  IF ~HasKey(rpc, op) THEN Raise("KeyError", <<>>)
  ELSE IF Len(rpc[op]) < 1 THEN Raise("IndexError", <<>>)
  ELSE IF ~HasKey(nfs, bytekey) THEN Raise("KeyError", <<>>)
  ELSE IF Len(rpc[op]) < 8 THEN Raise("IndexError", <<>>)
  ELSE IF T = Zero THEN Raise("ZeroDivisionError", <<>>)
  ELSE LET ops == Float(rpc[op][1])
           kilobytes == FDiv(Float(nfs[bytekey]), Float(1024))
           rtt == Float(rpc[op][7])
           exe == Float(rpc[op][8])
           list == << <<prefix \o "_ops_per_sec", FDiv(ops, T)>>,
                      <<prefix \o "_kb_per_sec", FDiv(kilobytes, T)>>,
                      <<prefix \o "_avg_rtt", IF ops # Zero THEN FDiv(rtt, ops) ELSE Zero>>,
                      <<prefix \o "_avg_exe", IF ops # Zero THEN FDiv(exe, ops) ELSE Zero>> >>
       IN IF ~full THEN Ok(list)
          ELSE LET others == calc_other_ops(rpc, T, ops_maps[op])
               IN IF others.err # "none" THEN others
                  ELSE Ok(list \o IterItems(others.d, order[op]))

build_read_stats(nfs, rpc, T, full, order) ==
  BuildStats(nfs, rpc, T, full, "READ", "serverreadbytes", "read", order)

build_write_stats(nfs, rpc, T, full, order) ==
  BuildStats(nfs, rpc, T, full, "WRITE", "serverwritebytes", "write", order)

(***************************************************************************)
(* DeviceData.format_iostats_display                                       *)
(***************************************************************************)
IsOpKey(k) == (\E i \in 1..Len(ops_maps["READ"]) : ops_maps["READ"][i] = k)
              \/ (\E i \in 1..Len(ops_maps["WRITE"]) : ops_maps["WRITE"][i] = k)

\* [k for k, v in stats if k not in ops_maps[...]]
RECURSIVE BaseKeys(_)
BaseKeys(st) ==
  IF st = <<>> THEN <<>>
  ELSE (IF IsOpKey(Head(st)[1]) THEN <<>> ELSE <<Head(st)[1]>>) \o BaseKeys(Tail(st))

\* ["%s_%s" % (k, key) for key, val in v]
GroupNames(k, v) == [i \in 1..Len(v) |-> k \o "_" \o v[i][1]]
\* ['%.5f' % val for key, val in v]
GroupValues(v) == [i \in 1..Len(v) |-> Fmt(v[i][2], 5)]

RECURSIVE OtherNames(_)
OtherNames(st) ==
  IF st = <<>> THEN <<>>
  ELSE (IF IsOpKey(Head(st)[1]) THEN GroupNames(Head(st)[1], Head(st)[2]) ELSE <<>>)
       \o OtherNames(Tail(st))

RECURSIVE OtherValues(_)
OtherValues(st) ==
  IF st = <<>> THEN <<>>
  ELSE (IF IsOpKey(Head(st)[1]) THEN GroupValues(Head(st)[2]) ELSE <<>>)
       \o OtherValues(Tail(st))

\* dict(stats)[k]: the value of the last pair with key k
Lookup(st, k) ==
  LET S == {i \in 1..Len(st) : st[i][1] = k}
  IN st[CHOOSE i \in S : \A j \in S : j <= i][2]

FloatColumns == <<"ops_per_sec", "ops_backlog", "read_ops_per_sec",
                  "read_kb_per_sec", "read_avg_rtt", "read_avg_exe",
                  "write_ops_per_sec", "write_kb_per_sec", "write_avg_rtt",
                  "write_avg_exe">>

\* the header line printed under csv_headers_on
HeaderLine(st) == CommaPair(CommaJoin(BaseKeys(st)), CommaJoin(OtherNames(st)))

\* the lines format_iostats_display prints (it is called with csv_on only)
format_iostats_display(opts, st) ==
  LET oline_others == CommaJoin(OtherValues(st))
      oline == CommaJoin(<<Lookup(st, "export"), Lookup(st, "mountpoint")>>
                         \o [i \in 1..Len(FloatColumns) |->
                               Fmt(Lookup(st, FloatColumns[i]), 5)])
  IN (IF opts.csv_headers_on THEN <<HeaderLine(st)>> ELSE <<>>)
     \o (IF oline_others # <<>> THEN <<CommaPair(oline, oline_others)>>
         ELSE <<oline>>)

(***************************************************************************)
(* DeviceData.display_iostats and display_iostats_human                    *)
(***************************************************************************)
\* a display that takes the interval as given
EffectiveTime_NoFallback(nfs, t) == Float(t)

\* `if sample_time == 0: sample_time = float(self.__nfs_data['age'])`
EffectiveTime(nfs, t) == IF t = 0 THEN Float(nfs["age"]) ELSE Float(t)

Shown(e, o, st) == [err |-> e, out |-> o, stats |-> st]

\* the reads and prints of display_iostats_human for one of READ and WRITE
HumanOp(r, nfs, rpc, T, op, bytekey, title) ==
  IF r.err # "none" THEN r
  ELSE IF ~HasKey(rpc, op) THEN Shown("KeyError", r.out, <<>>)
  ELSE IF Len(rpc[op]) < 1 THEN Shown("IndexError", r.out, <<>>)
  ELSE IF ~HasKey(nfs, bytekey) THEN Shown("KeyError", r.out, <<>>)
  ELSE IF Len(rpc[op]) < 8 THEN Shown("IndexError", r.out, <<>>)
  ELSE LET ops == Float(rpc[op][1])
           kilobytes == FDiv(Float(nfs[bytekey]), Float(1024))
           rtt == Float(rpc[op][7])
           exe == Float(rpc[op][8])
           head == <<"\t" \o title \o "\tops/s\t\tKb/s\t\tavg RTT (ms)\tavg exe (ms)">>
       IN IF T = Zero THEN Shown("ZeroDivisionError", r.out \o head, <<>>)
          ELSE Shown("none",
                     r.out \o head
                     \o <<"\t\t" \o Fmt(FDiv(ops, T), 2),
                          "\t\t" \o Fmt(FDiv(kilobytes, T), 2)>>
                     \o (IF ops # Zero
                         THEN <<"\t\t" \o Fmt(FDiv(rtt, ops), 2),
                                "\t\t" \o Fmt(FDiv(exe, ops), 2)>>
                         ELSE <<"\t\t0.00", "\t\t0.00">>),
                     <<>>)

display_iostats_human(nfs, rpc, t) ==
  IF ~HasKey(rpc, "rpcsends") THEN Shown("KeyError", <<>>, <<>>)
  ELSE IF t = 0 /\ ~HasKey(nfs, "age") THEN Shown("KeyError", <<>>, <<>>)
  ELSE IF ~HasKey(nfs, "export") \/ ~HasKey(nfs, "mountpoint")
  THEN Shown("KeyError", <<"">>, <<>>)
  ELSE LET sends == Float(rpc["rpcsends"])
           T == EffectiveTime(nfs, t)
           o1 == <<"", nfs["export"] \o " mounted on " \o nfs["mountpoint"] \o ":",
                   "\top/s\trpc bklog">>
       IN IF T = Zero THEN Shown("ZeroDivisionError", o1, <<>>)
          ELSE LET o2 == o1 \o <<"\t" \o Fmt(FDiv(sends, T), 2)>>
               IN IF sends # Zero /\ ~HasKey(rpc, "backlogutil")
                  THEN Shown("KeyError", o2, <<>>)
                  ELSE LET o3 == o2 \o
                                 (IF sends # Zero
                                  THEN <<"\t" \o Fmt(FDiv(FDiv(Float(rpc["backlogutil"]),
                                                               sends), T), 2)>>
                                  ELSE <<"\t0.00">>)
                       IN HumanOp(HumanOp(Shown("none", o3, <<>>), nfs, rpc, T,
                                          "READ", "serverreadbytes", "reads:"),
                                  nfs, rpc, T, "WRITE", "serverwritebytes", "writes:")

\* each printed item of the human report as a line of one piece
HumanReport(r) == Shown(r.err, [i \in 1..Len(r.out) |-> <<r.out[i]>>], r.stats)

display_iostats(nfs, rpc, t, opts, order) ==
  IF ~opts.csv_on THEN HumanReport(display_iostats_human(nfs, rpc, t))
  ELSE IF ~HasKey(rpc, "rpcsends") THEN Shown("KeyError", <<>>, <<>>)
  ELSE IF t = 0 /\ ~HasKey(nfs, "age") THEN Shown("KeyError", <<>>, <<>>)
  ELSE LET sends == Float(rpc["rpcsends"])
           T == EffectiveTime(nfs, t)
       IN IF sends # Zero /\ ~HasKey(rpc, "backlogutil")
          THEN Shown("KeyError", <<>>, <<>>)
          ELSE IF T = Zero THEN Shown("ZeroDivisionError", <<>>, <<>>)
          ELSE IF ~HasKey(nfs, "export") \/ ~HasKey(nfs, "mountpoint")
          THEN Shown("KeyError", <<>>, <<>>)
          ELSE LET ops_backlog == IF sends # Zero
                                  THEN FDiv(FDiv(Float(rpc["backlogutil"]), sends), T)
                                  ELSE Zero
                   read_full == opts.read_stats_on \/ opts.all_stats_on
                   write_full == opts.write_stats_on \/ opts.all_stats_on
                   base == << <<"export", nfs["export"]>>,
                              <<"mountpoint", nfs["mountpoint"]>>,
                              <<"ops_per_sec", FDiv(sends, T)>>,
                              <<"ops_backlog", ops_backlog>> >>
                   rd == build_read_stats(nfs, rpc, T, read_full, order)
               IN IF rd.err # "none" THEN Shown(rd.err, <<>>, <<>>)
                  ELSE LET wr == build_write_stats(nfs, rpc, T, write_full, order)
                       IN IF wr.err # "none" THEN Shown(wr.err, <<>>, <<>>)
                          ELSE LET st == base \o rd.d \o wr.d
                               IN Shown("none", format_iostats_display(opts, st), st)

\* DeviceData().parse_stats(lines) as a whole
RECURSIVE ParseFrom(_, _)
ParseFrom(st, ls) ==
  IF ls = <<>> \/ st.err # "none" THEN st
  ELSE ParseFrom(ParseLine(st, Head(ls)), Tail(ls))
parse_stats(ls) ==
  ParseFrom([found |-> FALSE, nfs |-> InitNfs, rpc |-> InitRpc, err |-> "none"], ls)

(***************************************************************************)
(* Whole mount blocks.                                                     *)
(***************************************************************************)
Reverse(q) == [i \in 1..Len(q) |-> q[Len(q) + 1 - i]]
IndexOf(q, x) == CHOOSE i \in 1..Len(q) : q[i] = x

\* the per-operation line of operation name: READ and WRITE carry count rc,
\* the others count xc, with ticks that differ from operation to operation
BlockOpLine(name, rc, xc) ==
  IF name \in {"READ", "WRITE"} THEN OpLine(name, rc, 2 * rc, 4 * rc)
  ELSE OpLine(name, xc, xc * IndexOf(ReportOps, name),
              2 * xc * IndexOf(ReportOps, name))

RECURSIVE BlockOpLines(_, _, _, _)
BlockOpLines(names, rc, xc, absent) ==
  IF names = <<>> THEN <<>>
  ELSE (IF Head(names) \in absent THEN <<>>
        ELSE <<BlockOpLine(Head(names), rc, xc)>>)
       \o BlockOpLines(Tail(names), rc, xc, absent)

MountBlock(mp, fstype, age, sends, rc, xc, absent, names) ==
  << DeviceLine("srv:/e", mp, fstype), AgeLine(age), OptsLine("rw,vers=3"),
     SecLine("flavor=1"), EventsLine, BytesLine(1048576, 2097152), <<>>,
     RpcLine, TcpLine(sends, 8), PerOpLine >>
  \o BlockOpLines(names, rc, xc, absent)

Ages == {0, 100}
SendCounts == {0, 500}
ReadCounts == {0, 100}
OtherCounts == {0, 4}
AbsentOps == {{}, {"READDIRPLUS"}}
ReportOrders == {ReportOps, Reverse(ReportOps)}

OptionSets == [csv_on : BOOLEAN, csv_headers_on : BOOLEAN, all_stats_on : BOOLEAN,
               read_stats_on : BOOLEAN, write_stats_on : BOOLEAN]

\* iteration orders of the dicts calc_other_ops returns: insertion order, the
\* slot order of a CPython 2.7 dict keyed by these names, and the reverse
InsertionOrder == [READ |-> <<1, 2, 3, 4, 5, 6, 7, 8, 9>>, WRITE |-> <<1, 2, 3, 4, 5, 6, 7>>]
SlotOrder == [READ |-> <<9, 8, 6, 3, 1, 4, 5, 2, 7>>, WRITE |-> <<5, 1, 2, 3, 4, 6, 7>>]
ReverseOrder == [READ |-> <<9, 8, 7, 6, 5, 4, 3, 2, 1>>, WRITE |-> <<7, 6, 5, 4, 3, 2, 1>>]
DictOrders == {InsertionOrder, SlotOrder, ReverseOrder}

(***************************************************************************)
(* SpecDisplay: stats = DeviceData(); stats.parse_stats(block);            *)
(* stats.display_iostats(sample_time, options)                             *)
(***************************************************************************)
DisplayInit ==
  /\ lines \in {MountBlock("/mnt", "nfs", age, sends, rc, xc, absent, names) :
                  age \in Ages, sends \in SendCounts, rc \in ReadCounts,
                  xc \in OtherCounts, absent \in AbsentOps, names \in ReportOrders}
  /\ pos = 0 /\ found = FALSE
  /\ nfs_data = InitNfs /\ rpc_data = InitRpc
  /\ pstate = "idle" /\ routed = <<>>
  /\ sample_time = 0 /\ options = NoOptions /\ iterOrder = NoOrder
  /\ stats = <<>> /\ out = <<>> /\ dstate = "ready"
  /\ IdleIo

ParseBlock ==
  /\ pstate = "idle" /\ dstate = "ready"
  /\ LET st == parse_stats(lines)
     IN /\ found' = st.found
        /\ nfs_data' = st.nfs
        /\ rpc_data' = st.rpc
        /\ pstate' = IF st.err = "none" THEN "done" ELSE st.err
  /\ UNCHANGED <<lines, pos, routed, dispVars, ioVars>>

\* the call stats.display_iostats(t, opts), the dicts it builds iterating in
\* the order `order`
Display(t, opts, order) ==
  /\ pstate = "done" /\ dstate = "ready"
  /\ sample_time' = t /\ options' = opts /\ iterOrder' = order
  /\ LET r == display_iostats(nfs_data, rpc_data, t, opts, order)
     IN /\ out' = out \o r.out
        /\ stats' = r.stats
        /\ dstate' = IF r.err = "none" THEN "done" ELSE r.err
  /\ UNCHANGED <<parseVars, ioVars>>

\* the intervals tried: small ones, and the age of the record
SampleTimes ==
  (0..MaxSampleTime) \cup (IF HasKey(nfs_data, "age") THEN {nfs_data["age"]} ELSE {})

DisplayCsv ==
  \E t \in SampleTimes, opts \in OptionSets, order \in DictOrders :
    opts.csv_on /\ Display(t, opts, order)

DisplayHuman ==
  \E t \in SampleTimes, opts \in OptionSets, order \in DictOrders :
    ~opts.csv_on /\ Display(t, opts, order)

DisplayNext == ParseBlock \/ DisplayCsv \/ DisplayHuman

SpecDisplay == DisplayInit /\ [][DisplayNext]_vars

(***************************************************************************)
(* SpecIostat: iostat_command(options, args) on a parsed report.           *)
(***************************************************************************)
\* a substring test in place of the two comparisons
is_nfs_mountpoint_Substring(nfs) == HasNfs(nfs["fstype"])

\* DeviceData.is_nfs_mountpoint
is_nfs_mountpoint(nfs) == nfs["fstype"] = "nfs" \/ nfs["fstype"] = "nfs4"

MountPoints == {"/a", "/b"}
ArgNames == MountPoints \cup {"/x"}
BlockKinds == {"nfs", "nfs4", "nfs3", "rootfs", "short"}
IoOps == <<"NULL", "GETATTR", "READ", "WRITE">>

\* the block of mount point mp: an NFS mount of one of three fstypes, a local
\* mount, or an NFS mount whose bytes: line is cut short
IoBlock(mp, kind) ==
  CASE kind = "rootfs" -> <<DeviceLine("rootfs", mp, "rootfs")>>
    [] kind = "short" ->
         [MountBlock(mp, "nfs", 100, 500, 100, 4, {}, IoOps) EXCEPT ![6] = CutLast(@)]
    [] OTHER -> MountBlock(mp, kind, 100, 500, 100, 4, {}, IoOps)

\* what parse_stats_file returns: a dict from mount point to block
Reports ==
  UNION {[M -> BlockKinds] : M \in SUBSET MountPoints}

IoOptionSets ==
  {o \in OptionSets : /\ ~o.read_stats_on /\ ~o.write_stats_on
                      /\ o.csv_headers_on => o.csv_on
                      /\ o.all_stats_on => o.csv_on}

\* the orders in which a dict with key set S may be iterated
Perms(S) == {q \in SeqsUpTo(S, Cardinality(S)) :
               Len(q) = Cardinality(S) /\ NoDuplicates(q)}

\* [arg for arg in args if arg in mountstats]
RECURSIVE KnownArgs(_, _)
KnownArgs(as, ms) ==
  IF as = <<>> THEN <<>>
  ELSE (IF HasKey(ms, Head(as)) THEN <<Head(as)>> ELSE <<>>) \o KnownArgs(Tail(as), ms)

IoInit ==
  /\ \E kinds \in Reports :
       mountstats = [mp \in DOMAIN kinds |-> IoBlock(mp, kinds[mp])]
  /\ args \in SeqsUpTo(ArgNames, MaxArgs)
  /\ options \in IoOptionSets
  /\ iterOrder = SlotOrder
  /\ sample_time = 0
  /\ devices = <<>> /\ check = <<>> /\ todo = <<>>
  /\ pc = "args" /\ errdev = ""
  /\ stats = <<>> /\ out = <<>> /\ dstate = "idle"
  /\ IdleParse

\* the loop over args, and the choice of the branch
SelectArgs ==
  /\ pc = "args"
  /\ devices' = KnownArgs(args, mountstats)
  /\ IF Len(devices') > 0
     THEN /\ todo' = devices'
          /\ pc' = "check"
     ELSE /\ todo' \in Perms(DOMAIN mountstats)
          /\ pc' = IF DOMAIN mountstats = {} THEN "filtered" ELSE "scan"
  /\ check' = <<>>
  /\ UNCHANGED <<parseVars, dispVars, mountstats, args, errdev>>

\* stats = DeviceData(); stats.parse_stats(block) in the driver's loops
ParseInto(block) ==
  LET st == parse_stats(block)
  IN /\ lines' = block
     /\ found' = st.found
     /\ nfs_data' = st.nfs
     /\ rpc_data' = st.rpc
     /\ pstate' = IF st.err = "none" THEN "done" ELSE st.err
     /\ UNCHANGED <<pos, routed>>

\* one iteration of the for loop over the named devices
CheckDevice ==
  /\ pc = "check" /\ todo # <<>>
  /\ ParseInto(mountstats[Head(todo)])
  /\ IF pstate' # "done"
     THEN /\ pc' = "error" /\ errdev' = Head(todo)
          /\ UNCHANGED <<devices, check, todo>>
     ELSE /\ check' = IF is_nfs_mountpoint(nfs_data')
                      THEN Append(check, Head(todo)) ELSE check
          /\ devices' = check'
          /\ todo' = Tail(todo)
          /\ pc' = IF todo' = <<>> THEN "filtered" ELSE "check"
          /\ UNCHANGED errdev
  /\ UNCHANGED <<dispVars, mountstats, args>>

\* one iteration of the for loop over mountstats.iteritems()
ScanDevice ==
  /\ pc = "scan" /\ todo # <<>>
  /\ ParseInto(mountstats[Head(todo)])
  /\ IF pstate' # "done"
     THEN /\ pc' = "error" /\ errdev' = Head(todo)
          /\ UNCHANGED <<devices, todo>>
     ELSE /\ devices' = IF is_nfs_mountpoint(nfs_data')
                        THEN Append(devices, Head(todo)) ELSE devices
          /\ todo' = Tail(todo)
          /\ pc' = IF todo' = <<>> THEN "filtered" ELSE "scan"
          /\ UNCHANGED errdev
  /\ UNCHANGED <<dispVars, mountstats, args, check>>

\* len(devices) == 0: the message, and return
NoMounts ==
  /\ pc = "filtered" /\ Len(devices) = 0
  /\ out' = Append(out, <<"No NFS mount points were found">>)
  /\ pc' = "done"
  /\ UNCHANGED <<parseVars, sample_time, options, iterOrder, stats, dstate,
                 mountstats, args, devices, check, todo, errdev>>

\* the call print_iostat_summary(mountstats, devices, sample_time, options)
CallSummary ==
  /\ pc = "filtered" /\ Len(devices) > 0
  /\ todo' = devices
  /\ pc' = "summary"
  /\ UNCHANGED <<parseVars, dispVars, mountstats, args, devices, check, errdev>>

\* one iteration of the for loop of print_iostat_summary
SummaryDevice ==
  /\ pc = "summary" /\ todo # <<>>
  /\ ParseInto(mountstats[Head(todo)])
  /\ IF pstate' # "done"
     THEN /\ pc' = "error" /\ errdev' = Head(todo)
          /\ UNCHANGED <<todo, stats, out, dstate>>
     ELSE LET r == display_iostats(nfs_data', rpc_data', sample_time, options,
                                   iterOrder)
          IN /\ out' = out \o r.out
             /\ stats' = r.stats
             /\ dstate' = IF r.err = "none" THEN "done" ELSE r.err
             /\ IF r.err = "none"
                THEN /\ todo' = Tail(todo)
                     /\ pc' = IF todo' = <<>> THEN "done" ELSE "summary"
                     /\ UNCHANGED errdev
                ELSE /\ pc' = "error" /\ errdev' = Head(todo)
                     /\ UNCHANGED todo
  /\ UNCHANGED <<sample_time, options, iterOrder, mountstats, args, devices, check>>

IoNext == SelectArgs \/ CheckDevice \/ ScanDevice \/ NoMounts \/ CallSummary
          \/ SummaryDevice

SpecIostat == IoInit /\ [][IoNext]_vars

(***************************************************************************)
(* Properties of parse_stats.                                              *)
(***************************************************************************)
FirstWord(l) == IF l = <<>> THEN "" ELSE l[1]
SeenRPC(i) == \E j \in 1..i : FirstWord(lines[j]) = "RPC"
NextLine == lines[pos + 1]

\* every consumed non-blank line went to the attributes handler before the
\* first RPC line and to the RPC handler from that line on
RoutedBySection ==
  \A i \in 1..Len(routed) :
    lines[i] # <<>> => routed[i] = (IF SeenRPC(i) THEN "rpc" ELSE "nfs")

\* an age: or bytes: line consumed in the RPC section leaves the attributes
\* alone and is appended to the operations
LateAttributeIsOp ==
  (/\ found /\ pstate = "parsing" /\ pos < Len(lines) /\ pos' = pos + 1
   /\ FirstWord(NextLine) \in {"age:", "bytes:"})
  => (/\ nfs_data' = nfs_data
      /\ rpc_data'["ops"] = Append(rpc_data["ops"], StripLast(FirstWord(NextLine)))
      /\ rpc_data'[StripLast(FirstWord(NextLine))] = LongList(Tail(NextLine)))

\* C1: in parse_stats every non-blank line before the first line whose first
\* token is RPC is routed to the attributes handler; that line and every later
\* one are routed to the RPC handler whatever their first token (an age: or
\* bytes: line there changes no attribute and becomes a per-operation entry);
\* once in the RPC section the parser never returns to the attributes section.
C1_Routing ==
  /\ []RoutedBySection
  /\ [][found => found']_vars
  /\ [][LateAttributeIsOp]_vars

C1_Witness ==
  /\ pstate = "done"
  /\ \E i \in 1..Len(routed) :
       /\ FirstWord(lines[i]) = "age:" /\ routed[i] = "rpc"
       /\ \E j \in 1..(i - 1) : FirstWord(lines[j]) = "age:" /\ routed[j] = "nfs"
  /\ nfs_data["age"] = 5
  /\ rpc_data["age"] = <<7>>

\* index of the last consumed line with first word w routed to handler h
LastOf(w, h) ==
  LET S == {i \in 1..Len(routed) : FirstWord(lines[i]) = w /\ routed[i] = h}
  IN CHOOSE i \in S : \A j \in S : j <= i
Occurs(w, h) == \E i \in 1..Len(routed) : FirstWord(lines[i]) = w /\ routed[i] = h

\* C9: after parse_stats a repeated key overwrites rather than duplicates:
\* attributes and per-operation counters hold the value of the last line that
\* set them, and the ordered list of operation names contains no name twice.
C9_RepeatedKeyOverwrites ==
  pstate = "done" =>
    /\ Occurs("age:", "nfs") => nfs_data["age"] = IntOf(lines[LastOf("age:", "nfs")][2])
    /\ Occurs("bytes:", "nfs") =>
         nfs_data["serverreadbytes"] = IntOf(lines[LastOf("bytes:", "nfs")][6])
    /\ Occurs("READ:", "rpc") =>
         rpc_data["READ"] = LongList(Tail(lines[LastOf("READ:", "rpc")]))
    /\ NoDuplicates(rpc_data["ops"])

\* the number of words the key of a line requires in the section it is in
TooShort(words, h) ==
  LET n == Len(words)
      w == FirstWord(words)
  IN CASE h = "nfs" ->
            (CASE w = "device" -> n < 8
               [] w = "age:" -> n < 2
               [] w = "sec:" -> n < 2 \/ words[2] = "flavor=6"
               [] w = "events:" -> n < 24
               [] w = "bytes:" -> n < 7
               [] OTHER -> FALSE)
       [] h = "rpc" ->
            (CASE w = "RPC" -> n < 6
               [] w = "xprt:" -> \/ n < 2
                                 \/ words[2] = "udp" /\ n < 8
                                 \/ words[2] = "tcp" /\ n < 11
               [] w \in {o \o ":" : o \in OpNames} -> n < 9
               [] OTHER -> FALSE)
       [] OTHER -> FALSE

\* C10: parse_stats given a line with fewer tokens than its key requires ends
\* in a parse error at that line; it never returns a record built from it.
C10_ShortLineIsParseError ==
  pstate = "done" => \A i \in 1..Len(routed) : ~TooShort(lines[i], routed[i])

(***************************************************************************)
(* Properties of display_iostats.                                          *)
(***************************************************************************)
Displayed == dstate \notin {"idle", "ready"}
Count(op) == rpc_data[op][1]
ReadFull == options.read_stats_on \/ options.all_stats_on
WriteFull == options.write_stats_on \/ options.all_stats_on

\* the extra operations the detail level asks for
Requested == (IF ReadFull THEN SeqToSet(OpsRead) ELSE {})
             \cup (IF WriteFull THEN SeqToSet(OpsWrite) ELSE {})

\* C3: in the delimited and in the human path, sample time 0 produces exactly
\* the derived values, the output and the outcome that a sample time equal to
\* the record's age in seconds produces.
C3_ZeroMeansAge ==
  (Displayed /\ sample_time = 0) =>
    LET r == display_iostats(nfs_data, rpc_data, nfs_data["age"], options, iterOrder)
    IN /\ dstate = (IF r.err = "none" THEN "done" ELSE r.err)
       /\ out = r.out
       /\ stats = r.stats

C3_Witness ==
  /\ dstate = "done" /\ sample_time = 0 /\ options.csv_on
  /\ nfs_data["age"] = 100
  /\ Lookup(stats, "read_ops_per_sec") = <<1, 1>>
  /\ Lookup(stats, "read_kb_per_sec") = <<256, 25>>
  /\ Lookup(stats, "read_avg_rtt") = <<2, 1>>
  /\ Lookup(stats, "read_avg_exe") = <<4, 1>>

\* the averages of the group of extra operation op in stats are zero
ZeroAverages(op) ==
  \A i \in 1..Len(stats) :
    stats[i][1] = op => stats[i][2][2][2] = Zero /\ stats[i][2][3][2] = Zero

\* C4: whatever the time base (a given interval, or the age when the interval
\* is 0), when READ, WRITE or a requested extra operation has count 0, or the
\* total of sends is 0, the computation completes with zero averages (zero
\* backlog) and raises no division error.
C4_ZeroCountNoDivisionError ==
  (/\ Displayed
   /\ \/ Count("READ") = 0 \/ Count("WRITE") = 0 \/ rpc_data["rpcsends"] = 0
      \/ \E op \in Requested : HasKey(rpc_data, op) /\ Count(op) = 0)
  => /\ dstate # "ZeroDivisionError"
     /\ (dstate = "done" /\ options.csv_on) =>
          /\ Count("READ") = 0 => /\ Lookup(stats, "read_avg_rtt") = Zero
                                  /\ Lookup(stats, "read_avg_exe") = Zero
          /\ Count("WRITE") = 0 => /\ Lookup(stats, "write_avg_rtt") = Zero
                                   /\ Lookup(stats, "write_avg_exe") = Zero
          /\ rpc_data["rpcsends"] = 0 => Lookup(stats, "ops_backlog") = Zero
          /\ \A op \in Requested : Count(op) = 0 => ZeroAverages(op)

\* the columns of a row, name and printed value, as stats lists them: the
\* fixed columns, then the groups of the extra operations
ColumnNames == BaseKeys(stats) \o OtherNames(stats)
ColumnValues ==
  <<Lookup(stats, "export"), Lookup(stats, "mountpoint")>>
  \o [i \in 1..Len(FloatColumns) |-> Fmt(Lookup(stats, FloatColumns[i]), 5)]
  \o OtherValues(stats)

\* C5: in delimited mode with the header enabled, for every detail level, the
\* header row split on commas has exactly as many fields as the value row of
\* the same mount, and the i-th header name labels the i-th value.
C5_HeaderMatchesRow ==
  (dstate = "done" /\ options.csv_on /\ options.csv_headers_on) =>
    LET header == SplitFields(out[1], "")
        row == SplitFields(out[2], "")
    IN /\ Len(header) = Len(row)
       /\ header = ColumnNames
       /\ row = ColumnValues

\* the keys of stats that are among the operations of list
RECURSIVE KeysAmong(_, _)
KeysAmong(st, list) ==
  IF st = <<>> THEN <<>>
  ELSE (IF Head(st)[1] \in SeqToSet(list) THEN <<Head(st)[1]>> ELSE <<>>)
       \o KeysAmong(Tail(st), list)

\* C6: in delimited mode the extra per-operation column groups of a row
\* appear in the canonical order of the operation lists, whatever the order
\* of the operations in the report or in the mapping calc_other_ops builds.
C6_CanonicalOrder ==
  (dstate = "done" /\ options.csv_on) =>
    /\ KeysAmong(stats, OpsRead) = (IF ReadFull THEN OpsRead ELSE <<>>)
    /\ KeysAmong(stats, OpsWrite) = (IF WriteFull THEN OpsWrite ELSE <<>>)

\* C8: when the detail level names an operation the record has no counters
\* for, the computation does not abort: the row is produced with the base
\* columns and the groups of the operations that are present.
C8_MissingOperationOmitted ==
  (/\ Displayed /\ options.csv_on
   /\ \E op \in Requested : ~HasKey(rpc_data, op)
   /\ EffectiveTime(nfs_data, sample_time) # Zero)
  => /\ dstate = "done"
     /\ Len(SplitFields(out[Len(out)], "")) =
          12 + 3 * Cardinality({op \in Requested : HasKey(rpc_data, op)})

(***************************************************************************)
(* Properties of iostat_command.                                           *)
(***************************************************************************)
\* words[7] of the device line of the block of mount point mp
FstypeOf(mp) == Tok(mountstats[mp][1], 7)

\* a row or a block of mount point mp has been printed
Reported(mp) ==
  \E i \in 1..Len(out) :
    IF options.csv_on
    THEN LET f == SplitFields(out[i], "") IN Len(f) >= 2 /\ f[2] = mp
    ELSE out[i] = <<Tok(mountstats[mp][1], 1) \o " mounted on " \o mp \o ":">>

\* C2: every mount iostat_command hands to print_iostat_summary has fstype
\* exactly nfs or nfs4; a block of any other fstype is parsed without error
\* and is never displayed, whether or not the arguments name it.
C2_OnlyNfsHandedOver ==
  /\ pc = "summary" => \A i \in 1..Len(devices) : FstypeOf(devices[i]) \in {"nfs", "nfs4"}
  /\ pc = "summary" => \A i \in 1..Len(todo) : FstypeOf(todo[i]) \in {"nfs", "nfs4"}
  /\ \A mp \in DOMAIN mountstats :
       FstypeOf(mp) \notin {"nfs", "nfs4"} => ~Reported(mp) /\ errdev # mp

C2_Witness ==
  /\ pc = "done"
  /\ \E i \in 1..Len(args) : HasKey(mountstats, args[i]) /\ FstypeOf(args[i]) = "nfs3"
  /\ \E mp \in DOMAIN mountstats : FstypeOf(mp) = "nfs4" /\ Reported(mp)

\* the mounts the run is asked to report: the named ones if a named one is in
\* the report, all of them otherwise
Selected(mp) ==
  (\E i \in 1..Len(args) : HasKey(mountstats, args[i]))
    => \E i \in 1..Len(args) : args[i] = mp

\* the block of mp is an NFS block that parses and displays without error
Sound(mp) ==
  LET st == parse_stats(mountstats[mp])
  IN /\ st.err = "none"
     /\ is_nfs_mountpoint(st.nfs)
     /\ display_iostats(st.nfs, st.rpc, sample_time, options, iterOrder).err = "none"

\* C7: when the processing of one block ends in a fatal error, every other
\* eligible block of the report is still reported.
C7_OtherBlocksReported ==
  pc \in {"done", "error"} =>
    \A mp \in DOMAIN mountstats : (Selected(mp) /\ Sound(mp)) => Reported(mp)

====
